---- MODULE Spec2Model ----
(***************************************************************************)
(* Model of project1-llm-council-cfb/src/loaders.py:                       *)
(*   build_agent_prompt_text, safe_json_load, parse_council_df.            *)
(*                                                                         *)
(* Python values are tagged records (the tag is the Python type).  A text  *)
(* handed to json.loads is a sequence of lexical tokens, so that parsing   *)
(* is a computation over the text and not the identity.  A prompt string   *)
(* is a sequence of characters.                                            *)
(***************************************************************************)
EXTENDS Integers, Sequences, FiniteSets, TLC

VARIABLES council_raw, repair_json, pc, idx, raw, model_name, data, records,
          result, exc,
          agent_system_prompt, game_data_text, prompt, ppc,
          other_raw, qc, first_result, first_pc

vars == <<council_raw, repair_json, pc, idx, raw, model_name, data, records,
          result, exc,
          agent_system_prompt, game_data_text, prompt, ppc,
          other_raw, qc, first_result, first_pc>>

(* ---------------------------- bounds ----------------------------------- *)
MaxRows == 2
MaxLen == 2
PairRows == 2

(* ------------------------- Python values ------------------------------- *)
None == [t |-> "None"]
NaN == [t |-> "NaN"]
PyInt(n) == [t |-> "int", i |-> n]
PyFloat(lit) == [t |-> "float", f |-> lit]
PyStr(name) == [t |-> "str", s |-> name]
PyText(toks) == [t |-> "str", toks |-> toks]
PyBool(b) == [t |-> "bool", b |-> b]
PyList(items) == [t |-> "list", l |-> items]
PyDict(pairs) == [t |-> "dict", d |-> pairs]

IsDict(v) == v.t = "dict"

Truthy(v) ==
    CASE v.t = "None" -> FALSE
      [] v.t = "int" -> v.i # 0
      [] v.t = "bool" -> v.b
      [] v.t = "list" -> Len(v.l) > 0
      [] v.t = "dict" -> Len(v.d) > 0
      [] OTHER -> TRUE

(* dict as its insertion-ordered sequence of <<key, value>> pairs *)
HasKey(pairs, key) == \E k \in 1..Len(pairs) : pairs[k][1] = key

DictSet(pairs, key, val) ==
    IF HasKey(pairs, key)
    THEN [k \in 1..Len(pairs) |->
             IF pairs[k][1] = key THEN <<key, val>> ELSE pairs[k]]
    ELSE Append(pairs, <<key, val>>)

DictGet(pairs, key, default) ==
    IF HasKey(pairs, key)
    THEN pairs[CHOOSE k \in 1..Len(pairs) : pairs[k][1] = key][2]
    ELSE default

(* --------------------------- lexical tokens ---------------------------- *)
FieldNames == {"winner_team_id", "winner_team_name", "projected_score",
               "confidence_winner", "confidence_score_band",
               "key_factors", "risk_factors"}
StrNames == FieldNames \cup {"1", "2", "3", "Texas", "medium", "offense"}
Quote(name) == "\"" \o name \o "\""
StrToks == {Quote(n) : n \in StrNames}
Unquote(tok) == CHOOSE n \in StrNames : Quote(n) = tok
IntLits == {<<"0", 0>>, <<"1", 1>>, <<"5", 5>>, <<"24", 24>>, <<"27", 27>>}
IntToks == {p[1] : p \in IntLits}
IntOf(tok) == (CHOOSE p \in IntLits : p[1] = tok)[2]
IntTok(n) == (CHOOSE p \in IntLits : p[2] = n)[1]
FloatToks == {"0.63"}

(* ------------------------------ json.loads ----------------------------- *)
Returned(v) == [raised |-> FALSE, value |-> v]
Raised(e) == [raised |-> TRUE, exc |-> e]

Parsed(v, next) == [ok |-> TRUE, val |-> v, next |-> next]
NoParse == [ok |-> FALSE]

RECURSIVE ParseValue(_, _), ParseMembers(_, _, _), ParseElements(_, _, _)

ParseValue(toks, p) ==
    IF p > Len(toks) THEN NoParse
    ELSE LET tk == toks[p] IN
         CASE tk = "{" ->
                IF p + 1 <= Len(toks) /\ toks[p + 1] = "}"
                THEN Parsed(PyDict(<<>>), p + 2)
                ELSE ParseMembers(toks, p + 1, <<>>)
           [] tk = "[" ->
                IF p + 1 <= Len(toks) /\ toks[p + 1] = "]"
                THEN Parsed(PyList(<<>>), p + 2)
                ELSE ParseElements(toks, p + 1, <<>>)
           [] tk \in StrToks -> Parsed(PyStr(Unquote(tk)), p + 1)
           [] tk \in IntToks -> Parsed(PyInt(IntOf(tk)), p + 1)
           [] tk \in FloatToks -> Parsed(PyFloat(tk), p + 1)
           [] tk = "true" -> Parsed(PyBool(TRUE), p + 1)
           [] tk = "false" -> Parsed(PyBool(FALSE), p + 1)
           [] tk = "null" -> Parsed(None, p + 1)
           [] OTHER -> NoParse

ParseMembers(toks, p, acc) ==
    IF p + 1 <= Len(toks) /\ toks[p] \in StrToks /\ toks[p + 1] = ":"
    THEN LET v == ParseValue(toks, p + 2) IN
         IF ~v.ok \/ v.next > Len(toks) THEN NoParse
         ELSE LET pairs == DictSet(acc, Unquote(toks[p]), v.val) IN
              CASE toks[v.next] = "," -> ParseMembers(toks, v.next + 1, pairs)
                [] toks[v.next] = "}" -> Parsed(PyDict(pairs), v.next + 1)
                [] OTHER -> NoParse
    ELSE NoParse

ParseElements(toks, p, acc) ==
    LET v == ParseValue(toks, p) IN
    IF ~v.ok \/ v.next > Len(toks) THEN NoParse
    ELSE CASE toks[v.next] = "," ->
                ParseElements(toks, v.next + 1, Append(acc, v.val))
           [] toks[v.next] = "]" ->
                Parsed(PyList(Append(acc, v.val)), v.next + 1)
           [] OTHER -> NoParse

json_loads(s) ==
    IF s.t # "str" THEN Raised("TypeError")
    ELSE LET r == ParseValue(s.toks, 1) IN
         IF r.ok /\ r.next = Len(s.toks) + 1
         THEN Returned(r.val)
         ELSE Raised("JSONDecodeError")

(* ------------------- repair_json (json_repair, optional) --------------- *)
\* An unquoted field name directly before ":" becomes a quoted key.
QuoteBareKeys(toks) ==
    [k \in 1..Len(toks) |->
        IF toks[k] \in FieldNames /\ k < Len(toks) /\ toks[k + 1] = ":"
        THEN Quote(toks[k]) ELSE toks[k]]

RECURSIVE DropTrailingCommas(_, _)

\* A comma directly before a closing bracket, or at the end, is dropped.
DropTrailingCommas(toks, k) ==
    IF k > Len(toks) THEN <<>>
    ELSE IF toks[k] = "," /\ (k = Len(toks) \/ toks[k + 1] \in {"}", "]"})
         THEN DropTrailingCommas(toks, k + 1)
         ELSE <<toks[k]>> \o DropTrailingCommas(toks, k + 1)

RECURSIVE CloseOpen(_, _, _)

\* A truncated text gets the closing brackets it still owes.
CloseOpen(toks, k, stack) ==
    IF k > Len(toks) THEN stack
    ELSE CASE toks[k] = "{" ->
                <<toks[k]>> \o CloseOpen(toks, k + 1, <<"}">> \o stack)
           [] toks[k] = "[" ->
                <<toks[k]>> \o CloseOpen(toks, k + 1, <<"]">> \o stack)
           [] toks[k] \in {"}", "]"} /\ Len(stack) > 0 ->
                <<toks[k]>> \o CloseOpen(toks, k + 1, Tail(stack))
           [] OTHER -> <<toks[k]>> \o CloseOpen(toks, k + 1, stack)

HeuristicRepair(toks) ==
    LET fixed == CloseOpen(DropTrailingCommas(QuoteBareKeys(toks), 1), 1, <<>>)
        r == ParseValue(fixed, 1)
    IN IF r.ok /\ r.next = Len(fixed) + 1 THEN fixed ELSE <<>>

\* repair_json is None (import failed), the repairing function, or a
\* function that fails on every text.
RepairModes == {"None", "heuristic", "raising"}

repair_json_call(s) ==
    IF repair_json = "raising" THEN Raised("RepairError")
    ELSE IF s.t # "str" THEN Raised("TypeError")
    ELSE Returned(PyText(HeuristicRepair(s.toks)))

(* ----------------------------- safe_json_load -------------------------- *)
\* "except Exception" catches every exception the calls in the try can raise
ExceptionSubclasses ==
    {"JSONDecodeError", "TypeError", "RepairError", "AttributeError"}

\* mutant: "except json.JSONDecodeError" in place of "except Exception"
ExceptJSONDecodeErrorOnly(e) == e = "JSONDecodeError"

ExceptException(e) == e \in ExceptionSubclasses

\* mutant: a falsy result of the strict parse is taken for a failure
safe_json_load_truthy_only(s) ==
    LET first == json_loads(s) IN
    IF ~first.raised /\ Truthy(first.value)
    THEN Returned(first.value)
    ELSE Returned(None)

safe_json_load(s) ==
    LET first == json_loads(s) IN
    IF ~first.raised THEN Returned(first.value)
    ELSE IF ~ExceptException(first.exc) THEN Raised(first.exc)
    ELSE IF repair_json # "None"
         THEN LET repaired == repair_json_call(s) IN
              IF repaired.raised
              THEN IF ExceptException(repaired.exc)
                   THEN Returned(None) ELSE Raised(repaired.exc)
              ELSE LET second == json_loads(repaired.value) IN
                   IF second.raised
                   THEN IF ExceptException(second.exc)
                        THEN Returned(None) ELSE Raised(second.exc)
                   ELSE Returned(second.value)
         ELSE Returned(None)

(* --------------------------- input texts ------------------------------- *)
RECURSIVE Encode(_), EncodeItems(_, _), EncodeMembers(_, _)

\* the strict JSON text of a value (what json.dumps writes)
Encode(v) ==
    CASE v.t = "None" -> <<"null">>
      [] v.t = "int" -> <<IntTok(v.i)>>
      [] v.t = "float" -> <<v.f>>
      [] v.t = "str" -> <<Quote(v.s)>>
      [] v.t = "bool" -> IF v.b THEN <<"true">> ELSE <<"false">>
      [] v.t = "list" -> <<"[">> \o EncodeItems(v.l, 1) \o <<"]">>
      [] v.t = "dict" -> <<"{">> \o EncodeMembers(v.d, 1) \o <<"}">>

EncodeItems(items, k) ==
    IF k > Len(items) THEN <<>>
    ELSE Encode(items[k]) \o (IF k < Len(items) THEN <<",">> ELSE <<>>)
         \o EncodeItems(items, k + 1)

EncodeMembers(pairs, k) ==
    IF k > Len(pairs) THEN <<>>
    ELSE <<Quote(pairs[k][1]), ":">> \o Encode(pairs[k][2])
         \o (IF k < Len(pairs) THEN <<",">> ELSE <<>>)
         \o EncodeMembers(pairs, k + 1)

ScenarioA ==
    PyDict(<< <<"winner_team_id", PyInt(1)>>,
              <<"winner_team_name", PyStr("Texas")>>,
              <<"projected_score",
                PyDict(<< <<"1", PyInt(27)>>, <<"2", PyInt(24)>> >>)>>,
              <<"confidence_winner", PyFloat("0.63")>>,
              <<"confidence_score_band", PyStr("medium")>>,
              <<"key_factors", PyList(<<PyStr("offense")>>)>>,
              <<"risk_factors", PyList(<<>>)>> >>)

EmptyObject == PyDict(<<>>)

NullFields ==
    PyDict(<< <<"winner_team_id", None>>, <<"projected_score", None>>,
              <<"key_factors", None>> >>)

ScoreList ==
    PyDict(<< <<"projected_score", PyList(<<PyInt(27), PyInt(24)>>)>> >>)

ScoreNumber == PyDict(<< <<"projected_score", PyInt(5)>> >>)

ScoreString == PyDict(<< <<"projected_score", PyStr("medium")>> >>)

ScoreZero == PyDict(<< <<"projected_score", PyInt(0)>> >>)

ScoreOtherKey ==
    PyDict(<< <<"projected_score",
                PyDict(<< <<"1", PyInt(27)>>, <<"3", PyInt(5)>> >>)>> >>)

FactorsString ==
    PyDict(<< <<"key_factors", PyStr("offense")>>,
              <<"risk_factors", PyList(<<PyStr("offense")>>)>> >>)

JsonObjects ==
    {ScenarioA, EmptyObject, NullFields, ScoreList, ScoreNumber, ScoreString,
     ScoreZero, ScoreOtherKey, FactorsString}

JsonNonObjects == {PyList(<<PyInt(1)>>), PyInt(27), None, PyStr("Texas")}

JsonValues == JsonObjects \cup JsonNonObjects

ValidTexts == {PyText(Encode(v)) : v \in JsonValues}

\* Scenario B
Garbage == PyText(<<"not", "json", "at", "all">>)

\* Scenario C: unquoted keys and a trailing comma
ScenarioC ==
    PyText(<<"{", "winner_team_id", ":", "1", ",", "winner_team_name", ":",
             Quote("Texas"), ",", "}">>)

Truncated == PyText(<<"{", Quote("winner_team_id"), ":", "1">>)

TruncatedList == PyText(<<"[", "1", ",">>)

EmptyText == PyText(<<>>)

MalformedTexts == {Garbage, ScenarioC, Truncated, TruncatedList, EmptyText}

\* a completion_text cell may also hold a non-string (a missing value)
CompletionTexts == ValidTexts \cup MalformedTexts \cup {None}

Models == {None, PyStr("gpt")}

\* rows of a frame share its columns
Rows ==
    [model : Models, completion_text : CompletionTexts]
    \cup [completion_text : {PyText(Encode(ScenarioA)), Garbage}]
    \cup [model : Models]

SeqsUpTo(S, n) == UNION {[1..k -> S] : k \in 0..n}

Batches(n) ==
    {b \in SeqsUpTo(Rows, n) :
        \A j, k \in 1..Len(b) : DOMAIN b[j] = DOMAIN b[k]}

(* ---------------------------- parse_council_df ------------------------ *)
Unset == [t |-> "unset"]
NoException == [type |-> "none", frame |-> "none"]

\* row.get(column, default)
RowGet(row, column, default) ==
    IF column \in DOMAIN row THEN row[column] ELSE default

\* data.get("projected_score", {}) or {}
ProjectedScore(d) ==
    LET v == DictGet(d.d, "projected_score", PyDict(<<>>)) IN
    IF Truthy(v) THEN v ELSE PyDict(<<>>)

\* only a dict has the method .get
HasGet(v) == v.t = "dict"

\* mutant: the failure record null-fills the prediction fields
InvalidRecordNullFilled(m, r) ==
    [model |-> m, raw |-> r, valid_json |-> PyBool(FALSE),
     winner_team_id |-> None, winner_team_name |-> None,
     score_team_1 |-> None, score_team_2 |-> None,
     confidence_winner |-> None, confidence_score_band |-> None,
     key_factors |-> None, risk_factors |-> None]

InvalidRecord(m, r) ==
    [model |-> m, raw |-> r, valid_json |-> PyBool(FALSE)]

\* mutant: key_factors and risk_factors looked up without the [] default
ValidRecordNoListDefault(m, d, projected_score) ==
    [model |-> m,
     valid_json |-> PyBool(TRUE),
     winner_team_id |-> DictGet(d.d, "winner_team_id", None),
     winner_team_name |-> DictGet(d.d, "winner_team_name", None),
     score_team_1 |-> DictGet(projected_score.d, "1", None),
     score_team_2 |-> DictGet(projected_score.d, "2", None),
     confidence_winner |-> DictGet(d.d, "confidence_winner", None),
     confidence_score_band |-> DictGet(d.d, "confidence_score_band", None),
     key_factors |-> DictGet(d.d, "key_factors", None),
     risk_factors |-> DictGet(d.d, "risk_factors", None)]

\* mutant: score_team_2 read at the key "1"
ValidRecordSameScoreKey(m, d, projected_score) ==
    [model |-> m,
     valid_json |-> PyBool(TRUE),
     winner_team_id |-> DictGet(d.d, "winner_team_id", None),
     winner_team_name |-> DictGet(d.d, "winner_team_name", None),
     score_team_1 |-> DictGet(projected_score.d, "1", None),
     score_team_2 |-> DictGet(projected_score.d, "1", None),
     confidence_winner |-> DictGet(d.d, "confidence_winner", None),
     confidence_score_band |-> DictGet(d.d, "confidence_score_band", None),
     key_factors |-> DictGet(d.d, "key_factors", PyList(<<>>)),
     risk_factors |-> DictGet(d.d, "risk_factors", PyList(<<>>))]

ValidRecord(m, d, projected_score) ==
    [model |-> m,
     valid_json |-> PyBool(TRUE),
     winner_team_id |-> DictGet(d.d, "winner_team_id", None),
     winner_team_name |-> DictGet(d.d, "winner_team_name", None),
     score_team_1 |-> DictGet(projected_score.d, "1", None),
     score_team_2 |-> DictGet(projected_score.d, "2", None),
     confidence_winner |-> DictGet(d.d, "confidence_winner", None),
     confidence_score_band |-> DictGet(d.d, "confidence_score_band", None),
     key_factors |-> DictGet(d.d, "key_factors", PyList(<<>>)),
     risk_factors |-> DictGet(d.d, "risk_factors", PyList(<<>>))]

\* mutant: "not data" in place of "data is None"
IsInvalidFalsy(d) == ~Truthy(d) \/ ~IsDict(d)

\* data is None or not isinstance(data, dict)
IsInvalid(d) == d = None \/ ~IsDict(d)

\* pd.DataFrame(records): the columns are the union of the records' keys and
\* a record without a column holds NaN there; a column of numbers holds NaN
\* for None as well.
NumericColumn(recs, c) ==
    /\ \E k \in 1..Len(recs) :
          c \in DOMAIN recs[k] /\ recs[k][c].t \in {"int", "float"}
    /\ \A k \in 1..Len(recs) :
          c \in DOMAIN recs[k] => recs[k][c].t \in {"int", "float", "None"}

DataFrame(recs) ==
    LET columns == UNION {DOMAIN recs[k] : k \in 1..Len(recs)} IN
    [columns |-> columns,
     rows |-> [k \in 1..Len(recs) |->
                 [c \in columns |->
                     IF c \notin DOMAIN recs[k] THEN NaN
                     ELSE IF NumericColumn(recs, c) /\ recs[k][c] = None
                          THEN NaN
                          ELSE recs[k][c]]]]

LoopRow == council_raw[idx]
RowRaw == RowGet(LoopRow, "completion_text", EmptyText)
RowModel == RowGet(LoopRow, "model", None)

\* lines 129-142: the row's text does not yield a dict
IterInvalid ==
    /\ pc = "loop" /\ idx <= Len(council_raw)
    /\ LET loaded == safe_json_load(RowRaw) IN
       /\ ~loaded.raised
       /\ IsInvalid(loaded.value)
       /\ raw' = RowRaw
       /\ model_name' = RowModel
       /\ data' = loaded.value
       /\ records' = Append(records, InvalidRecord(RowModel, RowRaw))
    /\ idx' = idx + 1
    /\ UNCHANGED <<council_raw, repair_json, pc, result, exc,
                   agent_system_prompt, game_data_text, prompt, ppc,
                   other_raw, qc, first_result, first_pc>>

\* lines 129-158: the row's text yields a dict
IterValid ==
    /\ pc = "loop" /\ idx <= Len(council_raw)
    /\ LET loaded == safe_json_load(RowRaw) IN
       /\ ~loaded.raised
       /\ ~IsInvalid(loaded.value)
       /\ HasGet(ProjectedScore(loaded.value))
       /\ raw' = RowRaw
       /\ model_name' = RowModel
       /\ data' = loaded.value
       /\ records' = Append(records,
              ValidRecord(RowModel, loaded.value,
                          ProjectedScore(loaded.value)))
    /\ idx' = idx + 1
    /\ UNCHANGED <<council_raw, repair_json, pc, result, exc,
                   agent_system_prompt, game_data_text, prompt, ppc,
                   other_raw, qc, first_result, first_pc>>

\* an exception leaves the loop: one that safe_json_load lets through, or
\* the AttributeError of projected_score.get on a value that is not a dict
IterRaise ==
    /\ pc = "loop" /\ idx <= Len(council_raw)
    /\ LET loaded == safe_json_load(RowRaw) IN
       /\ \/ loaded.raised
          \/ ~IsInvalid(loaded.value) /\ ~HasGet(ProjectedScore(loaded.value))
       /\ raw' = RowRaw
       /\ model_name' = RowModel
       /\ data' = IF loaded.raised THEN data ELSE loaded.value
       /\ exc' = IF loaded.raised
                 THEN [type |-> loaded.exc, frame |-> "safe_json_load"]
                 ELSE [type |-> "AttributeError",
                       frame |-> "parse_council_df"]
    /\ pc' = "raised"
    /\ UNCHANGED <<council_raw, repair_json, idx, records, result,
                   agent_system_prompt, game_data_text, prompt, ppc,
                   other_raw, qc, first_result, first_pc>>

\* line 160
Return ==
    /\ pc = "loop" /\ idx > Len(council_raw)
    /\ result' = DataFrame(records)
    /\ pc' = "done"
    /\ UNCHANGED <<council_raw, repair_json, idx, raw, model_name, data,
                   records, exc,
                   agent_system_prompt, game_data_text, prompt, ppc,
                   other_raw, qc, first_result, first_pc>>

NoPrompt ==
    /\ agent_system_prompt = <<>> /\ game_data_text = <<>>
    /\ prompt = <<>> /\ ppc = "off"

NoPair ==
    /\ other_raw = <<>> /\ qc = "single"
    /\ first_result = Unset /\ first_pc = "none"

CallStart ==
    /\ pc = "loop" /\ idx = 1
    /\ raw = Unset /\ model_name = Unset /\ data = Unset
    /\ records = <<>> /\ result = Unset /\ exc = NoException

Init ==
    /\ council_raw \in Batches(MaxRows)
    /\ repair_json \in RepairModes
    /\ CallStart
    /\ NoPrompt
    /\ NoPair

Next == IterInvalid \/ IterValid \/ IterRaise \/ Return

Spec == Init /\ [][Next]_vars

(* ------------------------ build_agent_prompt_text ---------------------- *)
\* "\n\n"
BlankLine == <<"\n", "\n">>

\* "----- GAME_DATA (TOON) -----\n"
Header ==
    <<"-", "-", "-", "-", "-", " ", "G", "A", "M", "E", "_", "D", "A", "T",
      "A", " ", "(", "T", "O", "O", "N", ")", " ", "-", "-", "-", "-", "-",
      "\n">>

\* "You are part of a council predicting the outcome of this game.\n"
InstructionLine1 ==
    <<"Y", "o", "u", " ", "a", "r", "e", " ", "p", "a", "r", "t", " ", "o",
      "f", " ", "a", " ", "c", "o", "u", "n", "c", "i", "l", " ", "p", "r",
      "e", "d", "i", "c", "t", "i", "n", "g", " ", "t", "h", "e", " ", "o",
      "u", "t", "c", "o", "m", "e", " ", "o", "f", " ", "t", "h", "i", "s",
      " ", "g", "a", "m", "e", ".", "\n">>

\* "Return ONLY a single JSON object matching the agreed schema."
InstructionLine2 ==
    <<"R", "e", "t", "u", "r", "n", " ", "O", "N", "L", "Y", " ", "a", " ",
      "s", "i", "n", "g", "l", "e", " ", "J", "S", "O", "N", " ", "o", "b",
      "j", "e", "c", "t", " ", "m", "a", "t", "c", "h", "i", "n", "g", " ",
      "t", "h", "e", " ", "a", "g", "r", "e", "e", "d", " ", "s", "c", "h",
      "e", "m", "a", ".">>

\* mutant: a single newline after the system prompt
build_agent_prompt_text_one_newline(system_prompt, game_data) ==
    system_prompt \o <<"\n">> \o Header \o game_data \o BlankLine
    \o InstructionLine1 \o InstructionLine2

build_agent_prompt_text(system_prompt, game_data) ==
    system_prompt \o BlankLine \o Header \o game_data \o BlankLine
    \o InstructionLine1 \o InstructionLine2

PromptChars == {"S", "-", "\n"}

PromptStrings == SeqsUpTo(PromptChars, MaxLen)

BuildPrompt ==
    /\ ppc = "call"
    /\ prompt' = build_agent_prompt_text(agent_system_prompt, game_data_text)
    /\ ppc' = "returned"
    /\ UNCHANGED <<council_raw, repair_json, pc, idx, raw, model_name, data,
                   records, result, exc, agent_system_prompt, game_data_text,
                   other_raw, qc, first_result, first_pc>>

InitPrompt ==
    /\ agent_system_prompt \in PromptStrings
    /\ game_data_text \in PromptStrings
    /\ prompt = <<>> /\ ppc = "call"
    /\ council_raw = <<>> /\ repair_json = "None"
    /\ pc = "off" /\ idx = 1
    /\ raw = Unset /\ model_name = Unset /\ data = Unset
    /\ records = <<>> /\ result = Unset /\ exc = NoException
    /\ NoPair

NextPrompt == BuildPrompt

SpecPrompt == InitPrompt /\ [][NextPrompt]_vars

(* ------------- two calls on batches that differ in one row ------------- *)
PairTexts ==
    {PyText(Encode(ScenarioA)), PyText(Encode(NullFields)),
     PyText(Encode(ScoreList)), PyText(Encode(PyList(<<PyInt(1)>>))), Garbage}

PairRowSet == [model : Models, completion_text : PairTexts]

\* the batches equal to b but for the completion_text of one row
Variants(b) ==
    {[b EXCEPT ![i].completion_text = t] :
        i \in 1..Len(b), t \in PairTexts} \ {b}

\* the first call is over; the second one starts on the other batch
SecondCall ==
    /\ qc = "first" /\ pc \in {"done", "raised"}
    /\ first_result' = result
    /\ first_pc' = pc
    /\ council_raw' = other_raw
    /\ other_raw' = council_raw
    /\ qc' = "second"
    /\ pc' = "loop" /\ idx' = 1
    /\ raw' = Unset /\ model_name' = Unset /\ data' = Unset
    /\ records' = <<>> /\ result' = Unset /\ exc' = NoException
    /\ UNCHANGED <<repair_json, agent_system_prompt, game_data_text, prompt,
                   ppc>>

InitPair ==
    /\ council_raw \in SeqsUpTo(PairRowSet, PairRows) \ {<<>>}
    /\ other_raw \in Variants(council_raw)
    /\ repair_json \in RepairModes
    /\ CallStart
    /\ NoPrompt
    /\ qc = "first" /\ first_result = Unset /\ first_pc = "none"

NextPair == IterInvalid \/ IterValid \/ IterRaise \/ Return \/ SecondCall

SpecPair == InitPair /\ [][NextPair]_vars

(* ------------------------------ properties ----------------------------- *)
MinimalFields == {"model", "raw", "valid_json"}
PredictionFields ==
    {"winner_team_id", "winner_team_name", "score_team_1", "score_team_2",
     "confidence_winner", "confidence_score_band", "key_factors",
     "risk_factors"}

LastRecord == records[Len(records)]

\* the locals raw, model_name and data are those of the row of LastRecord
Fresh == pc \in {"loop", "done"} /\ Len(records) > 0

\* safe_json_load(raw) has returned data
Loaded == raw # Unset /\ exc.frame # "safe_json_load"

\* C1: no exception escapes parse_council_df, whatever the rows hold.
C1_NoExceptionEscapes == pc # "raised" /\ exc = NoException

\* C2: every call returns a table with exactly one record per input row, in
\* input order, the k-th record made from the k-th row.
C2_OneRecordPerRow ==
    pc \in {"done", "raised"} =>
        /\ pc = "done"
        /\ Len(result.rows) = Len(council_raw)
        /\ \A k \in 1..Len(council_raw) :
              /\ result.rows[k].model = RowGet(council_raw[k], "model", None)
              /\ result.rows[k].valid_json = PyBool(FALSE) =>
                    result.rows[k].raw =
                        RowGet(council_raw[k], "completion_text", EmptyText)

C5_NeverRaises ==
    /\ exc.frame # "safe_json_load"
    /\ (/\ Loaded
        /\ raw \in MalformedTexts \cup {None}
        /\ \/ repair_json \in {"None", "raising"}
           \/ raw \in {Garbage, EmptyText, None})
       => data = None

C5_Witness ==
    /\ Loaded /\ raw = Garbage /\ repair_json = "None" /\ data = None
    /\ Len(records) = 1 /\ LastRecord.raw = Garbage

\* C6 (as stated): for a valid strict JSON text safe_json_load returns the
\* value the text denotes, with or without the repair capability, and that
\* result differs from the absent result None.
C6_RoundTripDistinct ==
    \A v \in JsonValues :
        (Loaded /\ raw = PyText(Encode(v))) => (data = v /\ data # None)

\* C6 (amended): for a valid strict JSON text safe_json_load returns the
\* value the text denotes, with or without the repair capability; the result
\* differs from the absent result None unless the text is null.
C6_RoundTrip ==
    \A v \in JsonValues :
        (Loaded /\ raw = PyText(Encode(v))) =>
            (data = v /\ (data = None <=> v = None))

C6_Witness ==
    /\ Loaded /\ raw = PyText(Encode(ScenarioA)) /\ data = ScenarioA
    /\ repair_json = "heuristic"

\* C7: of two calls on batches that differ only in the completion_text of
\* one row, both return, and the records at every other position are equal.
C7_RowsIndependent ==
    (qc = "second" /\ pc \in {"done", "raised"}) =>
        /\ first_pc = "done"
        /\ pc = "done"
        /\ \A j \in 1..Len(council_raw) :
              council_raw[j] = other_raw[j] =>
                  result.rows[j] = first_result.rows[j]

\* C8 (as stated): in a valid record key_factors and risk_factors are lists,
\* the object's value when it supplies one and the empty list when the key
\* is missing or null; the other optional fields are the object's value, or
\* None when the key is missing.
C8_FactorsDefaultOnNull ==
    (Fresh /\ LastRecord.valid_json = PyBool(TRUE)) =>
        /\ \A f \in {"key_factors", "risk_factors"} :
              /\ LastRecord[f].t = "list"
              /\ \A k \in 1..Len(data.d) :
                    (data.d[k][1] = f /\ data.d[k][2] # None) =>
                        LastRecord[f] = data.d[k][2]
              /\ (\A k \in 1..Len(data.d) : data.d[k][1] = f
                                                => data.d[k][2] = None)
                     => LastRecord[f] = PyList(<<>>)
        /\ \A f \in {"winner_team_id", "winner_team_name",
                     "confidence_winner", "confidence_score_band"} :
              /\ \A k \in 1..Len(data.d) :
                    data.d[k][1] = f => LastRecord[f] = data.d[k][2]
              /\ (\A k \in 1..Len(data.d) : data.d[k][1] # f)
                     => LastRecord[f] = None

\* C8 (amended): in a valid record key_factors and risk_factors are the
\* object's value whenever the key is present (null and non-list values are
\* carried through) and the empty list only when the key is missing; the
\* other optional fields are the object's value, or None when the key is
\* missing.
C8_FactorsDefaultOnMissing ==
    (Fresh /\ LastRecord.valid_json = PyBool(TRUE)) =>
        /\ \A f \in {"key_factors", "risk_factors"} :
              /\ \A k \in 1..Len(data.d) :
                    data.d[k][1] = f => LastRecord[f] = data.d[k][2]
              /\ (\A k \in 1..Len(data.d) : data.d[k][1] # f)
                     => LastRecord[f] = PyList(<<>>)
        /\ \A f \in {"winner_team_id", "winner_team_name",
                     "confidence_winner", "confidence_score_band"} :
              /\ \A k \in 1..Len(data.d) :
                    data.d[k][1] = f => LastRecord[f] = data.d[k][2]
              /\ (\A k \in 1..Len(data.d) : data.d[k][1] # f)
                     => LastRecord[f] = None

C8_Witness ==
    /\ Fresh /\ data = NullFields
    /\ LastRecord.valid_json = PyBool(TRUE)
    /\ LastRecord.key_factors = None
    /\ LastRecord.risk_factors = PyList(<<>>)
    /\ LastRecord.winner_team_name = None

\* C9: in a valid record score_team_1 and score_team_2 are the values of the
\* object's projected_score mapping at the keys "1" and "2"; a missing or
\* null projected_score counts as the empty mapping, and a score is None
\* when its key is not in the mapping.
C9_Scores ==
    (Fresh /\ LastRecord.valid_json = PyBool(TRUE)) =>
        /\ (\A k \in 1..Len(data.d) :
               data.d[k][1] = "projected_score" => data.d[k][2] = None)
              => (LastRecord.score_team_1 = None
                  /\ LastRecord.score_team_2 = None)
        /\ \A k \in 1..Len(data.d) :
              (data.d[k][1] = "projected_score" /\ data.d[k][2].t = "dict") =>
                  \A p \in {<<"1", "score_team_1">>, <<"2", "score_team_2">>} :
                      LET scores == data.d[k][2].d IN
                      /\ \A j \in 1..Len(scores) :
                            scores[j][1] = p[1]
                                => LastRecord[p[2]] = scores[j][2]
                      /\ (\A j \in 1..Len(scores) : scores[j][1] # p[1])
                            => LastRecord[p[2]] = None

C9_Witness ==
    /\ Fresh /\ data = ScoreOtherKey
    /\ LastRecord.valid_json = PyBool(TRUE)
    /\ LastRecord.score_team_1 = PyInt(27)
    /\ LastRecord.score_team_2 = None

\* C10: the prompt is system_prompt, a blank line, the GAME_DATA header line,
\* game_data_text, a blank line and the two instruction lines, in that order
\* and with nothing else, for all inputs including empty strings.
C10_PromptLayout ==
    ppc = "returned" =>
        LET n == Len(agent_system_prompt)
            m == Len(game_data_text)
            h == n + 2 + Len(Header)
            e == h + m + 2
        IN /\ Len(prompt) = e + Len(InstructionLine1) + Len(InstructionLine2)
           /\ SubSeq(prompt, 1, n) = agent_system_prompt
           /\ SubSeq(prompt, n + 1, n + 2) = <<"\n", "\n">>
           /\ SubSeq(prompt, n + 3, h) = Header
           /\ SubSeq(prompt, h + 1, h + m) = game_data_text
           /\ SubSeq(prompt, h + m + 1, e) = <<"\n", "\n">>
           /\ SubSeq(prompt, e + 1, e + Len(InstructionLine1))
                  = InstructionLine1
           /\ SubSeq(prompt, e + Len(InstructionLine1) + 1, Len(prompt))
                  = InstructionLine2
           /\ prompt[Len(prompt)] = "."

C10_Witness ==
    /\ ppc = "returned"
    /\ agent_system_prompt = <<>>
    /\ game_data_text = <<"S", "\n">>
    /\ Len(prompt) = 158

====
